---------------------------- MODULE Spec2Model ----------------------------
(***************************************************************************)
(* Strategic clearance engine of the UAV waypoint deconfliction service:   *)
(* the trajectory sampler and separation estimator of geometry.py, the     *)
(* temporal filter, risk classification and clearance evaluator of         *)
(* engine.py, over the records of scenario.py.                             *)
(*                                                                         *)
(* Numbers.  The program computes in floating point.  Here every length    *)
(* and time is a fixed-point number: an integer count of 1/Res of the      *)
(* unit, the unit being 0.1 m (the step round(., 1) rounds to) for lengths *)
(* and 1 s for times.  A division rounds to the nearest representable      *)
(* value, as floating point does.  A separation is a square root; it is    *)
(* represented by its square (an integer), on which <, = and min agree     *)
(* with those on the separation itself.  float("inf") is INF.              *)
(***************************************************************************)
EXTENDS Integers, Sequences, FiniteSets

VARIABLES
    pc,                 \* position in evaluate_mission_clearance / the call made
    mission,            \* argument: the mission record
    traffic,            \* what define_scheduled_traffic() returns
    config,             \* argument: the DeconflictionConfig of the call
    mission_traj,       \* local: sampled mission trajectory
    traffic_traj,       \* local: trajectory of the last flight sampled
    idx,                \* position of the for loop in the traffic list
    conflicts,          \* local: list of conflict records
    worst_separation,   \* local: running worst-case separation (squared)
    result,             \* the dictionary returned
    waypoints,          \* argument of a direct interpolate_trajectory_3d call
    samples_per_segment,\* argument of a direct interpolate_trajectory_3d call
    sampled,            \* what that call returned: <<trajectory, t_interp>>
    windows,            \* arguments of a direct time_windows_overlap call
    overlap             \* what that call returned

vars == <<pc, mission, traffic, config, mission_traj, traffic_traj, idx,
          conflicts, worst_separation, result, waypoints,
          samples_per_segment, sampled, windows, overlap>>

evalVars == <<mission, traffic, config, mission_traj, traffic_traj, idx,
              conflicts, worst_separation, result>>
samplerVars == <<waypoints, samples_per_segment, sampled>>
overlapVars == <<windows, overlap>>

---------------------------------------------------------------------------
(* Bounds of the model *)

MaxFlights == 2        \* longest traffic list
MaxWaypoints == 3      \* longest waypoint sequence handed to the sampler
MaxSamples == 2        \* largest samples_per_segment handed to the sampler
MaxTime == 3           \* largest time stamp, in seconds

(* Fixed-point resolution: 2 * 19 * 29, so that the 20 and 30 samples the   *)
(* default configuration draws from 2 and 3 waypoints fall on the grid.     *)
Res == 2 * 19 * 29

Fixed(n) == n * Res

\* Python's None, and a present optional value
None == <<>>
Some(v) == <<v>>

---------------------------------------------------------------------------
(* Arithmetic *)

Max(a, b) == IF a >= b THEN a ELSE b
Min(a, b) == IF a <= b THEN a ELSE b

\* a / b rounded to the nearest representable value (b > 0)
RoundDiv(a, b) == (2 * a + b) \div (2 * b)

\* float("inf")
INF == 2147483647

\* sep < d, for a separation sep held as its square and a length d >= 0
LessThan(sep, d) == sep < d * d

(* round(sep, 1) of a separation held as its square: the number of tenths  *)
(* of a metre nearest to it, a tie going to the even neighbour (Python     *)
(* rounds half to even).                                                   *)
Round1(sep) ==
    LET top == sep \div (Res * Res) + 1
        below(k) == 4 * sep <= (2 * k + 1) * (2 * k + 1) * Res * Res
        lo == CHOOSE k \in 0..top : below(k) /\ \A j \in 0..(k - 1) : ~below(j)
        tie == 4 * sep = (2 * lo + 1) * (2 * lo + 1) * Res * Res
    IN  IF tie /\ lo % 2 = 1 THEN lo + 1 ELSE lo

---------------------------------------------------------------------------
(* scenario.py *)

Waypoint(x, y, z, time) == [x |-> x, y |-> y, z |-> z, time |-> time]

DeconflictionConfig(safety_radius_m, sps) ==
    [safety_radius_m |-> safety_radius_m, samples_per_segment |-> sps]

\* the single global config instance: 25.0 m, 10 samples per segment
CONFIG == DeconflictionConfig(Fixed(250), 10)

---------------------------------------------------------------------------
(* geometry.py *)

\* as linspace, with the end point left out (endpoint=False)
linspace_open(start, stop, num) ==
    [i \in 1..num |-> start + RoundDiv((i - 1) * (stop - start), num)]

\* np.linspace(start, stop, num), num >= 2: the last point is stop itself
linspace(start, stop, num) ==
    [i \in 1..num |->
        IF i = num THEN stop
        ELSE start + RoundDiv((i - 1) * (stop - start), num - 1)]

(* np.interp(x, xp, fp) for non-decreasing xp: the search returns the last *)
(* j with xp[j] <= x; the last point and an exact hit return fp[j].        *)
interp(x, xp, fp) ==
    LET n == Len(xp) IN
    IF x > xp[n] THEN fp[n]
    ELSE IF x < xp[1] THEN fp[1]
    ELSE LET j == CHOOSE k \in 1..n :
                      /\ xp[k] <= x
                      /\ \A m \in 1..n : xp[m] <= x => m <= k
         IN  IF j = n THEN fp[j]
             ELSE IF xp[j] = x THEN fp[j]
             ELSE fp[j] + RoundDiv((fp[j + 1] - fp[j]) * (x - xp[j]),
                                   xp[j + 1] - xp[j])

total_samples(wps, sps) == Max(Len(wps) * sps, 2)

\* an array holding the values of f on 1..n
Array(f, n) == SubSeq(f, 1, n)

\* returns <<trajectory, t_interp>>; sps = None takes the global default
interpolate_trajectory_3d(wps, sps) ==
    LET s == IF sps = None THEN CONFIG.samples_per_segment ELSE sps[1]
        W == Len(wps)
        n == total_samples(wps, s)
        times == Array([k \in 1..W |-> wps[k].time], W)
        xs == Array([k \in 1..W |-> wps[k].x], W)
        ys == Array([k \in 1..W |-> wps[k].y], W)
        zs == Array([k \in 1..W |-> wps[k].z], W)
        t_interp == Array(linspace(times[1], times[W], n), n)
    IN  << Array([i \in 1..n |-> <<interp(t_interp[i], times, xs),
                                    interp(t_interp[i], times, ys),
                                    interp(t_interp[i], times, zs)>>], n),
           t_interp >>

\* squared norm of p - q
norm2(p, q) ==
    LET dx == p[1] - q[1]
        dy == p[2] - q[2]
        dz == p[3] - q[3]
    IN  dx * dx + dy * dy + dz * dz

\* minimum over all pairs of samples (as its square)
compute_min_separation(traj1, traj2) ==
    LET pts1 == {traj1[i] : i \in 1..Len(traj1)}
        pts2 == {traj2[j] : j \in 1..Len(traj2)}
        dists == {norm2(p, q) : p \in pts1, q \in pts2}
    IN  CHOOSE d \in dists : \A e \in dists : d <= e

---------------------------------------------------------------------------
(* engine.py *)

\* as time_windows_overlap, with touching windows counted as overlapping
time_windows_overlap_closed(t1_start, t1_end, t2_start, t2_end) ==
    Max(t1_start, t2_start) <= Min(t1_end, t2_end)

time_windows_overlap(t1_start, t1_end, t2_start, t2_end) ==
    Max(t1_start, t2_start) < Min(t1_end, t2_end)

\* as classify_risk_level, with the boundaries put in the higher-risk bucket
classify_risk_level_inclusive(worst_sep, safety_radius) ==
    IF worst_sep = INF THEN "low"
    ELSE IF worst_sep <= safety_radius * safety_radius THEN "high"
    ELSE IF worst_sep <= 4 * safety_radius * safety_radius THEN "medium"
    ELSE "low"

classify_risk_level(worst_sep, safety_radius) ==
    IF worst_sep = INF THEN "low"
    ELSE IF LessThan(worst_sep, safety_radius) THEN "high"
    ELSE IF LessThan(worst_sep, 2 * safety_radius) THEN "medium"
    ELSE "low"

\* the dictionary appended to conflicts
ConflictRecord(m, flight, separation) ==
    [drone_id |-> flight.id,
     role |-> flight.role,
     min_separation_m |-> Round1(separation),
     overlap_window_s |-> <<Max(m.t_start, flight.t_start),
                            Min(m.t_end, flight.t_end)>>]

(* Variants of LoopBody: one part of the pass changed.                     *)
LoopBodyWith(m, m_traj, cfg, st, flight, worst(_, _), violates(_), at_front) ==
    IF ~time_windows_overlap(m.t_start, m.t_end, flight.t_start, flight.t_end)
    THEN st
    ELSE LET t_traj == interpolate_trajectory_3d(flight.waypoints, None)[1]
             separation == compute_min_separation(m_traj, t_traj)
             record == ConflictRecord(m, flight, separation)
         IN  [worst_separation |-> worst(st.worst_separation, separation),
              conflicts |->
                  IF violates(separation)
                  THEN IF at_front THEN <<record>> \o st.conflicts
                       ELSE Append(st.conflicts, record)
                  ELSE st.conflicts,
              traffic_traj |-> t_traj]

\* a separation equal to the safety radius recorded as a conflict
LoopBody_inclusive(m, m_traj, cfg, st, flight) ==
    LET violates(sep) == sep <= cfg.safety_radius_m * cfg.safety_radius_m
    IN  LoopBodyWith(m, m_traj, cfg, st, flight, Min, violates, FALSE)

\* conflicts recorded up to twice the safety radius
LoopBody_wide(m, m_traj, cfg, st, flight) ==
    LET violates(sep) == LessThan(sep, 2 * cfg.safety_radius_m)
    IN  LoopBodyWith(m, m_traj, cfg, st, flight, Min, violates, FALSE)

\* the running worst case overwritten by the last separation
LoopBody_last(m, m_traj, cfg, st, flight) ==
    LET violates(sep) == LessThan(sep, cfg.safety_radius_m)
        last(w, sep) == sep
    IN  LoopBodyWith(m, m_traj, cfg, st, flight, last, violates, FALSE)

\* conflict records put at the front of the list
LoopBody_front(m, m_traj, cfg, st, flight) ==
    LET violates(sep) == LessThan(sep, cfg.safety_radius_m)
    IN  LoopBodyWith(m, m_traj, cfg, st, flight, Min, violates, TRUE)

(* One pass of the for loop over a flight, on the locals                   *)
(* st = [worst_separation, conflicts, traffic_traj].                       *)
LoopBody(m, m_traj, cfg, st, flight) ==
    IF ~time_windows_overlap(m.t_start, m.t_end, flight.t_start, flight.t_end)
    THEN st
    ELSE LET t_traj == interpolate_trajectory_3d(flight.waypoints, None)[1]
             separation == compute_min_separation(m_traj, t_traj)
         IN  [worst_separation |-> Min(st.worst_separation, separation),
              conflicts |->
                  IF LessThan(separation, cfg.safety_radius_m)
                  THEN Append(st.conflicts, ConflictRecord(m, flight, separation))
                  ELSE st.conflicts,
              traffic_traj |-> t_traj]

\* the dictionary returned
ReturnValue(m, cfg, worst, confl) ==
    [status |-> IF confl = <<>> THEN "clear" ELSE "blocked",
     risk_level |-> classify_risk_level(worst, cfg.safety_radius_m),
     worst_separation_m |-> IF worst = INF THEN None ELSE Some(Round1(worst)),
     conflicts |-> confl,
     mission |-> m,
     config |-> cfg]

\* the loop of lines 63-85 over the flights tr[k], tr[k + 1], ...
RECURSIVE ForEachFlight(_, _, _, _, _, _)
ForEachFlight(m, m_traj, cfg, st, tr, k) ==
    IF k > Len(tr) THEN st
    ELSE ForEachFlight(m, m_traj, cfg, LoopBody(m, m_traj, cfg, st, tr[k]),
                       tr, k + 1)

\* the whole call, with tr what define_scheduled_traffic() returns
evaluate_mission_clearance(m, tr, cfg) ==
    LET m_traj == interpolate_trajectory_3d(m.waypoints, None)[1]
        st == ForEachFlight(m, m_traj, cfg,
                            [worst_separation |-> INF, conflicts |-> <<>>,
                             traffic_traj |-> <<>>],
                            tr, 1)
    IN  ReturnValue(m, cfg, st.worst_separation, st.conflicts)

---------------------------------------------------------------------------
(* Inputs of the model: positions in units of 0.1 m, times in seconds *)

Point(x, y, z) == <<Fixed(x), Fixed(y), Fixed(z)>>

\* a path through the points ps at the times ts
Path(ps, ts) ==
    [k \in 1..Len(ps) |-> Waypoint(ps[k][1], ps[k][2], ps[k][3], Fixed(ts[k]))]

P0 == Point(0, 0, 0)
P1 == Point(1, 0, 0)
P2 == Point(2, 0, 0)
P3 == Point(1, 1, 1)

\* record constructors for the inputs
Mission(w, e) ==
    [mission_id |-> "scan", waypoints |-> w, t_start |-> Fixed(0),
     t_end |-> Fixed(e)]

Flight(id, role, ps, s) ==
    [id |-> id, role |-> role, waypoints |-> Path(ps, <<s, 2>>),
     t_start |-> Fixed(s), t_end |-> Fixed(2)]

(* The mission hovers at P0 (window [0, 1] or [0, 2]), flies P0 -> P2 or    *)
(* flies P0 -> P2 -> P0 (window [0, 2]).                                    *)
Missions ==
    {Mission(Path(<<P0, P0>>, <<0, 2>>), 1),
     Mission(Path(<<P0, P0>>, <<0, 2>>), 2),
     Mission(Path(<<P0, P2>>, <<0, 2>>), 2),
     Mission(Path(<<P0, P2, P0>>, <<0, 1, 2>>), 2)}

\* scheduled flights, each over its window [s, 2]
Flights ==
    {Flight("hover_p0_early", "delivery", <<P0, P0>>, 0),
     Flight("hover_p0_late", "delivery", <<P0, P0>>, 1),
     Flight("hover_p1", "delivery", <<P1, P1>>, 0),
     Flight("hover_p2", "emergency", <<P2, P2>>, 0),
     Flight("hover_p3", "emergency", <<P3, P3>>, 1),
     Flight("transit_p2_p0", "cargo", <<P2, P0>>, 1)}

RECURSIVE SeqsUpTo(_, _)
SeqsUpTo(S, n) ==
    IF n = 0 THEN {<<>>}
    ELSE LET shorter == SeqsUpTo(S, n - 1)
         IN  shorter \cup {Append(q, e) : q \in {r \in shorter : Len(r) = n - 1},
                                          e \in S}

Traffics == SeqsUpTo(Flights, MaxFlights)

\* safety radius 0.1 m, 0.15 m or 0.2 m; 1 or 10 samples per segment
Configs ==
    {DeconflictionConfig(r, s) :
        r \in {Fixed(1), Fixed(3) \div 2, Fixed(2)}, s \in {1, 10}}

NonDecreasing(n) ==
    {ts \in [1..n -> 0..MaxTime] : \A k \in 1..(n - 1) : ts[k] <= ts[k + 1]}

\* waypoint sequences handed to the sampler directly
WaypointSeqs ==
    UNION {{Path(ps, ts) : ps \in [1..n -> {P0, P3}], ts \in NonDecreasing(n)} :
              n \in 2..MaxWaypoints}

---------------------------------------------------------------------------
(* evaluate_mission_clearance(mission, config) *)

Idle ==
    /\ mission = None /\ traffic = <<>> /\ config = None
    /\ mission_traj = <<>> /\ traffic_traj = <<>> /\ idx = 0
    /\ conflicts = <<>> /\ worst_separation = INF /\ result = None

(* A call with a mission and a configuration.  The defaults of the two     *)
(* parameters (the perimeter-scan mission, the global CONFIG) are further  *)
(* values of the same arguments; their coordinates and 25 m radius lie     *)
(* outside the ranges drawn here.                                          *)
Init ==
    /\ pc = "call"
    /\ mission \in Missions
    /\ traffic \in Traffics
    /\ config \in Configs
    /\ mission_traj = <<>> /\ traffic_traj = <<>> /\ idx = 0
    /\ conflicts = <<>> /\ worst_separation = INF /\ result = None
    /\ waypoints = <<>> /\ samples_per_segment = 0 /\ sampled = None
    /\ windows = <<>> /\ overlap = FALSE

\* lines 59-61: sample the mission, empty the locals
Enter ==
    /\ pc = "call"
    /\ mission_traj' = interpolate_trajectory_3d(mission.waypoints, None)[1]
    /\ conflicts' = <<>>
    /\ worst_separation' = INF
    /\ idx' = 1
    /\ pc' = "loop"
    /\ UNCHANGED <<mission, traffic, config, traffic_traj, result>>
    /\ UNCHANGED <<samplerVars, overlapVars>>

\* lines 63-85: one pass of the loop
Loop ==
    /\ pc = "loop"
    /\ idx <= Len(traffic)
    /\ \E st \in {LoopBody(mission, mission_traj, config,
                             [worst_separation |-> worst_separation,
                              conflicts |-> conflicts,
                              traffic_traj |-> traffic_traj],
                             traffic[idx])} :
           /\ worst_separation' = st.worst_separation
           /\ conflicts' = st.conflicts
           /\ traffic_traj' = st.traffic_traj
    /\ idx' = idx + 1
    /\ UNCHANGED <<pc, mission, traffic, config, mission_traj, result>>
    /\ UNCHANGED <<samplerVars, overlapVars>>

\* lines 87-98
Return ==
    /\ pc = "loop"
    /\ idx > Len(traffic)
    /\ result' = ReturnValue(mission, config, worst_separation, conflicts)
    /\ pc' = "done"
    /\ UNCHANGED <<mission, traffic, config, mission_traj, traffic_traj, idx,
                   conflicts, worst_separation>>
    /\ UNCHANGED <<samplerVars, overlapVars>>

Next == Enter \/ Loop \/ Return

Spec == Init /\ [][Next]_vars

---------------------------------------------------------------------------
(* interpolate_trajectory_3d(waypoints, samples_per_segment) called alone *)

InitSampler ==
    /\ pc = "sample"
    /\ waypoints \in WaypointSeqs
    /\ samples_per_segment \in 1..MaxSamples
    /\ sampled = None
    /\ Idle
    /\ windows = <<>> /\ overlap = FALSE

Sample ==
    /\ pc = "sample"
    /\ sampled' = interpolate_trajectory_3d(waypoints, Some(samples_per_segment))
    /\ pc' = "sampled"
    /\ UNCHANGED <<waypoints, samples_per_segment, evalVars, overlapVars>>

NextSampler == Sample

SpecSampler == InitSampler /\ [][NextSampler]_vars

---------------------------------------------------------------------------
(* time_windows_overlap(t1_start, t1_end, t2_start, t2_end) called alone *)

InitOverlap ==
    /\ pc = "filter"
    /\ windows \in [1..4 -> 0..MaxTime]
    /\ overlap = FALSE
    /\ Idle
    /\ waypoints = <<>> /\ samples_per_segment = 0 /\ sampled = None

Filter ==
    /\ pc = "filter"
    /\ overlap' = time_windows_overlap(windows[1], windows[2],
                                       windows[3], windows[4])
    /\ pc' = "filtered"
    /\ UNCHANGED <<windows, evalVars, samplerVars>>

NextOverlap == Filter

SpecOverlap == InitOverlap /\ [][NextOverlap]_vars

---------------------------------------------------------------------------
(* Vocabulary of the properties *)

\* the two windows share more than an instant
WindowsIntersect(m, f) ==
    /\ m.t_start < m.t_end /\ f.t_start < f.t_end
    /\ m.t_start < f.t_end /\ f.t_start < m.t_end

(* the separation the engine computes between the sampled mission and a     *)
(* flight (in the states where the mission has been sampled)               *)
Separation(f) ==
    compute_min_separation(mission_traj,
                           interpolate_trajectory_3d(f.waypoints, None)[1])

\* positions k of the traffic list, in order, whose flight satisfies P
RECURSIVE Positions(_, _)
Positions(P(_), k) ==
    IF k > Len(traffic) THEN <<>>
    ELSE (IF P(traffic[k]) THEN <<k>> ELSE <<>>) \o Positions(P, k + 1)

Violates(f) ==
    /\ WindowsIntersect(mission, f)
    /\ Separation(f) < config.safety_radius_m * config.safety_radius_m

\* least separation over the overlapping flights among the first n (INF if none)
RECURSIVE LeastSeparation(_)
LeastSeparation(n) ==
    IF n = 0 THEN INF
    ELSE IF WindowsIntersect(mission, traffic[n])
         THEN Min(LeastSeparation(n - 1), Separation(traffic[n]))
         ELSE LeastSeparation(n - 1)

\* the list tr without its k-th element
Without(tr, k) == SubSeq(tr, 1, k - 1) \o SubSeq(tr, k + 1, Len(tr))

Position(wp) == <<wp.x, wp.y, wp.z>>

---------------------------------------------------------------------------
(* Properties of evaluate_mission_clearance, under Spec *)

(* C1: the conflicts returned hold exactly one record for each flight that *)
(* overlaps the mission in time and whose separation is strictly below     *)
(* safety_radius, with that flight's id and role, in traffic order.        *)
C1_ConflictsAreTheViolations ==
    pc = "done" =>
        LET hits == Positions(Violates, 1)
        IN  /\ Len(result.conflicts) = Len(hits)
            /\ \A i \in 1..Len(hits) :
                  /\ result.conflicts[i].drone_id = traffic[hits[i]].id
                  /\ result.conflicts[i].role = traffic[hits[i]].role

\* two flights, one recorded as a conflict, and an overlapping flight
\* exactly safety_radius away that yields no record
C1_Witness ==
    /\ pc = "done"
    /\ Len(result.conflicts) = 1
    /\ Len(traffic) = 2
    /\ \E k \in 1..2 :
          /\ WindowsIntersect(mission, traffic[k])
          /\ Separation(traffic[k]) = config.safety_radius_m * config.safety_radius_m

(* C2: a flight whose window does not overlap the mission's leaves status, *)
(* risk_level, worst_separation and conflicts as they are without it.      *)
C2_NonOverlappingFlightIsAbsent ==
    pc = "done" =>
        \A k \in 1..Len(traffic) :
            ~WindowsIntersect(mission, traffic[k]) =>
                LET r == evaluate_mission_clearance(mission, Without(traffic, k),
                                                    config)
                IN  /\ result.status = r.status
                    /\ result.risk_level = r.risk_level
                    /\ result.worst_separation_m = r.worst_separation_m
                    /\ result.conflicts = r.conflicts

\* a non-overlapping flight on the mission's own positions, next to a
\* flight that does conflict
C2_Witness ==
    /\ pc = "done"
    /\ result.status = "blocked"
    /\ \E k \in 1..Len(traffic) :
          /\ ~WindowsIntersect(mission, traffic[k])
          /\ Len(traffic[k].waypoints) = Len(mission.waypoints)
          /\ \A j \in 1..Len(mission.waypoints) :
                Position(traffic[k].waypoints[j]) = Position(mission.waypoints[j])

(* C3: risk is low when no flight overlapped in time; otherwise, with w    *)
(* the unrounded worst separation and r the safety radius, high when       *)
(* w < r, medium when r <= w < 2r, low when w >= 2r.                       *)
C3_RiskLevel ==
    pc = "done" =>
        LET w == worst_separation
            rr == config.safety_radius_m * config.safety_radius_m
            none == \A k \in 1..Len(traffic) : ~WindowsIntersect(mission, traffic[k])
        IN  /\ none => result.risk_level = "low"
            /\ ~none /\ w < rr => result.risk_level = "high"
            /\ ~none /\ rr <= w /\ w < 4 * rr => result.risk_level = "medium"
            /\ ~none /\ w >= 4 * rr => result.risk_level = "low"

\* worst separation exactly the safety radius: medium
C3_Witness ==
    /\ pc = "done"
    /\ worst_separation = config.safety_radius_m * config.safety_radius_m
    /\ result.risk_level = "medium"

(* C4: status is blocked exactly when conflicts is non-empty, and exactly  *)
(* when risk_level is high.                                                *)
C4_BlockedIffConflictsIffHigh ==
    pc = "done" =>
        /\ (result.status = "blocked") <=> (Len(result.conflicts) > 0)
        /\ (result.status = "blocked") <=> (result.risk_level = "high")
        /\ result.status \in {"clear", "blocked"}

\* a blocked result of high risk: one flight in conflict, and another that
\* overlaps in time without violating the safety radius
C4_Witness ==
    /\ pc = "done"
    /\ result.status = "blocked"
    /\ result.risk_level = "high"
    /\ Len(result.conflicts) = 1
    /\ \E k \in 1..Len(traffic) :
          /\ WindowsIntersect(mission, traffic[k])
          /\ Separation(traffic[k]) >= config.safety_radius_m * config.safety_radius_m

(* C5: the running worst separation is, after every pass of the loop, the  *)
(* minimum over the overlapping flights visited so far; the result's       *)
(* worst_separation is absent iff no flight overlapped, else that minimum  *)
(* over all overlapping flights rounded to one decimal.                    *)
C5_WorstSeparation ==
    /\ pc = "loop" => worst_separation = LeastSeparation(idx - 1)
    /\ pc = "done" =>
          LET least == LeastSeparation(Len(traffic))
              none == \A k \in 1..Len(traffic) :
                          ~WindowsIntersect(mission, traffic[k])
          IN  /\ (result.worst_separation_m = None) <=> none
              /\ ~none => result.worst_separation_m = Some(Round1(least))

\* the nearer flight visited first, a farther overlapping one after it
C5_Witness ==
    /\ pc = "done"
    /\ Len(traffic) = 2
    /\ WindowsIntersect(mission, traffic[1])
    /\ WindowsIntersect(mission, traffic[2])
    /\ Separation(traffic[1]) < Separation(traffic[2])
    /\ result.worst_separation_m = Some(Round1(Separation(traffic[1])))

(* C7: the mission and every overlapping flight are sampled with           *)
(* max(waypoint_count * config.samples_per_segment, 2) samples, config     *)
(* being the configuration passed to the call.                             *)
C7_SamplesFollowThePassedConfig ==
    /\ pc \in {"loop", "done"} =>
          Len(mission_traj) =
              Max(Len(mission.waypoints) * config.samples_per_segment, 2)
    /\ pc \in {"loop", "done"} /\ idx > 1
          /\ WindowsIntersect(mission, traffic[idx - 1]) =>
          Len(traffic_traj) =
              Max(Len(traffic[idx - 1].waypoints) * config.samples_per_segment, 2)

C10_ReportedBelowRadius ==
    /\ \A i \in 1..Len(conflicts) :
          Fixed(conflicts[i].min_separation_m) < config.safety_radius_m
    /\ pc = "done" /\ result.status = "blocked" =>
          Fixed(result.worst_separation_m[1]) < config.safety_radius_m

(* C10 amended: the unrounded worst separation of a blocked result is      *)
(* strictly less than safety_radius; every reported min_separation, and    *)
(* the reported worst_separation of a blocked result, is the one-decimal   *)
(* rounding of such a value: less than safety_radius + 0.05.               *)
C10_ReportedBelowRadiusPlusHalfStep ==
    /\ \A i \in 1..Len(conflicts) :
          2 * Fixed(conflicts[i].min_separation_m)
              < 2 * config.safety_radius_m + Res
    /\ pc = "done" /\ result.status = "blocked" =>
          /\ LessThan(worst_separation, config.safety_radius_m)
          /\ 2 * Fixed(result.worst_separation_m[1])
                 < 2 * config.safety_radius_m + Res

\* a conflict whose reported separation was rounded up to the safety radius
C10_Witness ==
    /\ pc = "done"
    /\ \E i \in 1..Len(result.conflicts) :
          Fixed(result.conflicts[i].min_separation_m) = config.safety_radius_m

---------------------------------------------------------------------------
(* Properties of time_windows_overlap, under SpecOverlap *)

---------------------------------------------------------------------------
(* Properties of interpolate_trajectory_3d, under SpecSampler *)

SampleTimesOk ==
    LET n == Max(Len(waypoints) * samples_per_segment, 2)
        traj == sampled[1]
        t == sampled[2]
    IN  /\ Len(traj) = n
        /\ Len(t) = n
        /\ \A i \in 1..(n - 1) : t[i] <= t[i + 1]
        /\ t[1] = waypoints[1].time
        /\ t[n] = waypoints[Len(waypoints)].time
        /\ traj[n] = Position(waypoints[Len(waypoints)])

=============================================================================
